---------------------------- MODULE Spec2Model ----------------------------
(***************************************************************************)
(* Metadata store of the game dataset scraper (src/dataset_manager.py):    *)
(* the JSON backing file, the files on disk its records point to, and the  *)
(* operations of DatasetManager on them.                                   *)
(***************************************************************************)
EXTENDS Integers, Sequences, FiniteSets, TLC

VARIABLES
    metaFile,   \* the backing file metadata.json: [state, data]
    disk,       \* the set of paths that exist on disk as regular files
    last,       \* the most recent completed call: [op, arg, pre, ret, wrote, again],
                \* with found, the state a save_metadata found the backing file in
    writers,    \* parallel writers inside save_metadata: [pc, loaded, batch]
    accepted,   \* records some completed save_metadata appended
    overlap,    \* TRUE once two save_metadata calls overlapped in time
    dirs,       \* the set of paths that exist on disk as directories
    unreadable, \* the regular files on disk that open() refuses to read
    run         \* the orchestrator's run: [mode, pc, ...]

vars == <<metaFile, disk, last, writers, accepted, overlap, dirs, unreadable, run>>

(***************************************************************************)
(* Bounds of the model.                                                    *)
(***************************************************************************)
MaxBatch == 2       \* longest list handed to one save_metadata call
MaxStore == 4       \* longest store the model lets a call build
MaxWriterBatch == 1 \* longest list a parallel writer hands over

(***************************************************************************)
(* The universe of values.                                                 *)
(***************************************************************************)
None == "<None>"    \* Python's None (what dict.get returns for a missing key)

Paths == {"dataset/x.jpg", "web_images/y.jpg"}

\* os.path.join(folder, name) for the folders and names of the model
PathTable ==
    { <<"incoming", "x.jpg", "incoming/x.jpg">>,
      <<"incoming", "y.jpg", "incoming/y.jpg">>,
      <<"incoming", "z.jpg", "incoming/z.jpg">>,
      <<"dataset", "x.jpg", "dataset/x.jpg">>,
      <<"dataset", "y.jpg", "dataset/y.jpg">>,
      <<"dataset", "z.jpg", "dataset/z.jpg">>,
      <<"web_images", "x.jpg", "web_images/x.jpg">>,
      <<"web_images", "y.jpg", "web_images/y.jpg">>,
      <<"web_images", "z.jpg", "web_images/z.jpg">> }

join(folder, name) ==
    (CHOOSE t \in PathTable : t[1] = folder /\ t[2] = name)[3]

\* os.path.basename
basename(p) == (CHOOSE t \in PathTable : t[3] = p)[2]

\* the folder a path lies in
dirname(p) == (CHOOSE t \in PathTable : t[3] = p)[1]

\* the logical category -> folder mapping of __init__
directories ==
    [videos |-> "downloads", video_frames |-> "dataset",
     web_images |-> "web_images", real_images |-> "real_images"]

\* self.directories.values()
Folders == { directories[dir_type] : dir_type \in DOMAIN directories }

\* the source_type the orchestrator records for a file of a folder
source_type_of(p) == IF dirname(p) = "dataset" THEN "youtube_frame" ELSE "web_gallery"

\* the entry create_metadata_entry builds for a file at path p whose content
\* hashes to h (the size and time fields play no part in any operation)
create_metadata_entry(h, p) ==
    [filename |-> basename(p), filepath |-> p,
     source_type |-> source_type_of(p), file_hash |-> h]

\* the entries the model hands to the store: two files of equal content, a
\* file whose content changed, a third content, and an unreadable file
Records ==
    { create_metadata_entry("a", "dataset/x.jpg"),
      create_metadata_entry("a", "web_images/y.jpg"),
      create_metadata_entry("b", "dataset/x.jpg"),
      create_metadata_entry("c", "web_images/y.jpg"),
      create_metadata_entry("", "web_images/y.jpg") }

BoundedSeq(S, n) == UNION { [1..k -> S] : k \in 0..n }

Range(s) == { s[i] : i \in DOMAIN s }

(***************************************************************************)
(* Python helpers.                                                         *)
(***************************************************************************)
\* entry.get(key)
Get(entry, key) == IF key \in DOMAIN entry THEN entry[key] ELSE None

\* entry.get(key, default)
GetOr(entry, key, default) == IF key \in DOMAIN entry THEN entry[key] ELSE default

\* truth value of a string-or-None in an `if`
Truthy(v) == v # None /\ v # ""

RECURSIVE SumSeq(_)
SumSeq(s) == IF s = <<>> THEN 0 ELSE Head(s) + SumSeq(Tail(s))

(***************************************************************************)
(* The backing file.                                                       *)
(***************************************************************************)
Absent == [state |-> "absent", data |-> <<>>]
Corrupt == [state |-> "corrupt", data |-> <<>>]     \* exists, does not parse

\* open(metadata_file, 'w') ; json.dump(entries, f)
json_dump(entries) == [state |-> "valid", data |-> entries]

\* open(metadata_file, 'w') alone: the file exists and is empty
truncated == Corrupt

\* exists, its bytes are not valid UTF-8
Undecodable == [state |-> "undecodable", data |-> <<>>]

\* exists, the process may neither read nor write it
Protected == [state |-> "protected", data |-> <<>>]

\* load_metadata, when it returns: the parsed list, or [] for a file that is
\* absent or whose open or parse failed with JSONDecodeError or IOError
load_metadata(file) == IF file.state = "valid" THEN file.data ELSE <<>>

\* the operations of the store that begin with self.load_metadata()
StoreOps ==
    { "save_metadata", "load_metadata", "find_duplicates",
      "cleanup_broken_links", "get_summary_report", "export_metadata_csv" }

\* the exception a store operation ends with on this backing file, or None:
\* json.load on undecodable bytes raises UnicodeDecodeError, a ValueError
\* that `except (json.JSONDecodeError, IOError)` does not catch; the
\* unguarded open(metadata_file, 'w') raises PermissionError
exception_of(op, file) ==
    IF file.state = "undecodable" THEN "UnicodeDecodeError"
    ELSE IF op = "save_metadata" /\ file.state = "protected" THEN "PermissionError"
    ELSE None

(***************************************************************************)
(* save_metadata                                                           *)
(***************************************************************************)
\* existing_hashes = {entry.get('file_hash') for entry in existing_metadata}
existing_hashes(existing_metadata) ==
    { Get(existing_metadata[i], "file_hash") : i \in DOMAIN existing_metadata }

\* Faulty variants of the loop, each a slip the properties below must catch.
\* Entries with the empty hash bypass the membership test.
merge_entries_exempt_empty(existing_metadata, metadata_entries) ==
    existing_metadata \o
      SelectSeq(metadata_entries,
                LAMBDA entry : \/ Get(entry, "file_hash") = ""
                               \/ Get(entry, "file_hash")
                                    \notin existing_hashes(existing_metadata))

\* An input entry replaces the existing entries of its hash (last one wins).
merge_entries_replace(existing_metadata, metadata_entries) ==
    SelectSeq(existing_metadata,
              LAMBDA entry : Get(entry, "file_hash")
                                 \notin existing_hashes(metadata_entries))
      \o metadata_entries

\* The accepted entries are written without the loaded ones.
merge_entries_only_new(existing_metadata, metadata_entries) ==
    SelectSeq(metadata_entries,
              LAMBDA entry : Get(entry, "file_hash")
                                 \notin existing_hashes(existing_metadata))

\* The accepted entries are inserted in front of the loaded ones.
merge_entries_prepend(existing_metadata, metadata_entries) ==
    SelectSeq(metadata_entries,
              LAMBDA entry : Get(entry, "file_hash")
                                 \notin existing_hashes(existing_metadata))
      \o existing_metadata

\* The accepted entries are appended in reverse input order.
merge_entries_reversed(existing_metadata, metadata_entries) ==
    LET new_entries ==
          SelectSeq(metadata_entries,
                    LAMBDA entry : Get(entry, "file_hash")
                                       \notin existing_hashes(existing_metadata))
    IN  existing_metadata \o
          [ i \in 1..Len(new_entries) |-> new_entries[Len(new_entries) + 1 - i] ]

\* the first n input entries without those whose hash came earlier in the input
RECURSIVE first_of_each_hash(_, _)
first_of_each_hash(metadata_entries, n) ==
    IF n = 0 THEN <<>>
    ELSE LET before == first_of_each_hash(metadata_entries, n - 1) IN
         IF Get(metadata_entries[n], "file_hash") \in existing_hashes(before)
         THEN before ELSE Append(before, metadata_entries[n])

\* Faulty variant: the hash of an appended entry joins existing_hashes at once.
merge_entries_unique_batch(existing_metadata, metadata_entries) ==
    existing_metadata \o
      SelectSeq(first_of_each_hash(metadata_entries, Len(metadata_entries)),
                LAMBDA entry : Get(entry, "file_hash")
                                   \notin existing_hashes(existing_metadata))

\* Faulty variant: a hash that was ever persisted is refused for good.
merge_entries_against_history(existing_metadata, metadata_entries) ==
    existing_metadata \o
      SelectSeq(metadata_entries,
                LAMBDA entry : Get(entry, "file_hash")
                                   \notin existing_hashes(existing_metadata)
                                           \cup { Get(e, "file_hash") : e \in accepted })

\* the loop of save_metadata: existing_metadata after the appends
merge_entries(existing_metadata, metadata_entries) ==
    existing_metadata \o
      SelectSeq(metadata_entries,
                LAMBDA entry : Get(entry, "file_hash")
                                   \notin existing_hashes(existing_metadata))

\* no orchestrator run is under way
NoRun == [mode |-> "none", pc |-> "idle"]

NoCall ==
    [op |-> "none", arg |-> <<>>, pre |-> <<>>, ret |-> None, wrote |-> FALSE,
     again |-> FALSE]

\* what save_metadata does to the backing file, and what the caller sees
save_metadata_effect(metadata_entries) ==
    LET existing_metadata == load_metadata(metaFile) IN
    /\ exception_of("save_metadata", metaFile) = None
    /\ Len(merge_entries(existing_metadata, metadata_entries)) <= MaxStore
    /\ metaFile' = json_dump(merge_entries(existing_metadata, metadata_entries))
    /\ last' = [op |-> "save_metadata", arg |-> metadata_entries,
                pre |-> existing_metadata, ret |-> None, wrote |-> TRUE,
                again |-> (last.op = "save_metadata"), found |-> metaFile.state]

save_metadata(metadata_entries) ==
    /\ save_metadata_effect(metadata_entries)
    /\ UNCHANGED <<disk, writers, accepted, overlap, dirs, unreadable, run>>

\* save_metadata, with every entry it appends added to the record of the
\* entries that were ever persisted
save_metadata_recorded(metadata_entries) ==
    LET existing_metadata == load_metadata(metaFile)
        merged == merge_entries(existing_metadata, metadata_entries)
    IN  /\ save_metadata_effect(metadata_entries)
        /\ accepted' = accepted \cup
              { merged[i] : i \in (Len(existing_metadata) + 1)..Len(merged) }
        /\ UNCHANGED <<disk, writers, overlap, dirs, unreadable, run>>

(***************************************************************************)
(* load_metadata as a call                                                 *)
(***************************************************************************)
\* Faulty variant: what was loaded is written back, so a missing or
\* unparseable backing file becomes a file holding the empty list.
load_call_creates_file ==
    /\ exception_of("load_metadata", metaFile) = None
    /\ metaFile' = json_dump(load_metadata(metaFile))
    /\ last' = [op |-> "load_metadata", arg |-> <<>>,
                pre |-> load_metadata(metaFile),
                ret |-> load_metadata(metaFile), wrote |-> FALSE, again |-> FALSE]
    /\ UNCHANGED <<disk, writers, accepted, overlap, dirs, unreadable, run>>

load_call ==
    /\ exception_of("load_metadata", metaFile) = None
    /\ last' = [op |-> "load_metadata", arg |-> <<>>,
                pre |-> load_metadata(metaFile),
                ret |-> load_metadata(metaFile), wrote |-> FALSE, again |-> FALSE]
    /\ UNCHANGED <<metaFile, disk, writers, accepted, overlap, dirs, unreadable, run>>

(***************************************************************************)
(* find_duplicates                                                         *)
(***************************************************************************)
\* the keys of hash_groups after the first n entries, in insertion order
RECURSIVE hash_keys(_, _)
hash_keys(metadata, n) ==
    IF n = 0 THEN <<>>
    ELSE LET keys == hash_keys(metadata, n - 1)
             file_hash == Get(metadata[n], "file_hash")
         IN  IF Truthy(file_hash) /\ file_hash \notin Range(keys)
             THEN Append(keys, file_hash) ELSE keys

\* hash_groups.values(): one list per key, entries in store order
hash_groups(metadata) ==
    LET keys == hash_keys(metadata, Len(metadata)) IN
    [ i \in 1..Len(keys) |->
        SelectSeq(metadata, LAMBDA entry : Get(entry, "file_hash") = keys[i]) ]

\* Faulty variant: groups of one entry are returned too.
find_duplicates_all_groups(metadata) ==
    SelectSeq(hash_groups(metadata), LAMBDA group : Len(group) > 0)

find_duplicates(metadata) ==
    SelectSeq(hash_groups(metadata), LAMBDA group : Len(group) > 1)

find_duplicates_call ==
    /\ exception_of("find_duplicates", metaFile) = None
    /\ last' = [op |-> "find_duplicates", arg |-> <<>>,
                pre |-> load_metadata(metaFile),
                ret |-> find_duplicates(load_metadata(metaFile)), wrote |-> FALSE,
                again |-> FALSE]
    /\ UNCHANGED <<metaFile, disk, writers, accepted, overlap, dirs, unreadable, run>>

(***************************************************************************)
(* cleanup_broken_links                                                    *)
(***************************************************************************)
\* os.path.exists
exists(filepath) == filepath \in disk \cup dirs

\* os.path.isfile
isfile(filepath) == filepath \in disk

\* os.listdir(folder), as full paths
listdir(folder) ==
    { t[3] : t \in { u \in PathTable : u[1] = folder } } \cap (disk \cup dirs)

\* Faulty variant: the existence test is inverted.
valid_entries_inverted(metadata) ==
    SelectSeq(metadata,
              LAMBDA entry : /\ Truthy(Get(entry, "filepath"))
                             /\ ~exists(Get(entry, "filepath")))

valid_entries(metadata) ==
    SelectSeq(metadata,
              LAMBDA entry : /\ Truthy(Get(entry, "filepath"))
                             /\ exists(Get(entry, "filepath")))

\* Faulty variant: the entries kept are counted, not the entries removed.
removed_count_kept(metadata) == Len(valid_entries(metadata))

removed_count(metadata) == Len(metadata) - Len(valid_entries(metadata))

\* Faulty variant: the loaded list is written back, not the filtered one.
cleanup_broken_links_writes_all ==
    LET metadata == load_metadata(metaFile) IN
    /\ exception_of("cleanup_broken_links", metaFile) = None
    /\ metaFile' = IF removed_count(metadata) > 0
                   THEN json_dump(metadata) ELSE metaFile
    /\ last' = [op |-> "cleanup_broken_links", arg |-> <<>>, pre |-> metadata,
                ret |-> removed_count(metadata),
                wrote |-> (removed_count(metadata) > 0),
                again |-> (last.op = "cleanup_broken_links")]
    /\ UNCHANGED <<disk, writers, accepted, overlap, dirs, unreadable, run>>

\* Faulty variant: the filtered list is written whether or not it is shorter.
cleanup_broken_links_always_writes ==
    LET metadata == load_metadata(metaFile) IN
    /\ exception_of("cleanup_broken_links", metaFile) = None
    /\ metaFile' = json_dump(valid_entries(metadata))
    /\ last' = [op |-> "cleanup_broken_links", arg |-> <<>>, pre |-> metadata,
                ret |-> removed_count(metadata),
                wrote |-> TRUE,
                again |-> (last.op = "cleanup_broken_links")]
    /\ UNCHANGED <<disk, writers, accepted, overlap, dirs, unreadable, run>>

cleanup_broken_links ==
    LET metadata == load_metadata(metaFile) IN
    /\ exception_of("cleanup_broken_links", metaFile) = None
    /\ metaFile' = IF removed_count(metadata) > 0
                   THEN json_dump(valid_entries(metadata)) ELSE metaFile
    /\ last' = [op |-> "cleanup_broken_links", arg |-> <<>>, pre |-> metadata,
                ret |-> removed_count(metadata),
                wrote |-> (removed_count(metadata) > 0),
                again |-> (last.op = "cleanup_broken_links")]
    /\ UNCHANGED <<disk, writers, accepted, overlap, dirs, unreadable, run>>

(***************************************************************************)
(* get_file_stats and get_summary_report                                   *)
(***************************************************************************)
\* Faulty variant: every directory entry is counted, subdirectories too.
get_file_stats_all_entries ==
    [ dir_type \in DOMAIN directories |->
        IF exists(directories[dir_type])
        THEN Cardinality(listdir(directories[dir_type]))
        ELSE 0 ]

get_file_stats ==
    [ dir_type \in DOMAIN directories |->
        IF exists(directories[dir_type])
        THEN Cardinality({ f \in listdir(directories[dir_type]) : isfile(f) })
        ELSE 0 ]

RECURSIVE SumOver(_, _)
SumOver(f, S) ==
    IF S = {} THEN 0
    ELSE LET k == CHOOSE k \in S : TRUE IN f[k] + SumOver(f, S \ {k})

\* Faulty variant: an entry without a source_type is not counted at all.
source_breakdown_skips_untyped(metadata) ==
    LET types == { Get(metadata[i], "source_type") : i \in DOMAIN metadata } \ {None}
    IN  [ t \in types |->
            Cardinality({ i \in DOMAIN metadata :
                            Get(metadata[i], "source_type") = t }) ]

source_breakdown(metadata) ==
    LET types == { GetOr(metadata[i], "source_type", "unknown") : i \in DOMAIN metadata }
    IN  [ t \in types |->
            Cardinality({ i \in DOMAIN metadata :
                            GetOr(metadata[i], "source_type", "unknown") = t }) ]

get_summary_report(metadata) ==
    LET stats == get_file_stats
        duplicates == find_duplicates(metadata)
    IN  [ file_counts |-> stats,
          total_files |-> SumOver(stats, DOMAIN stats),
          metadata_entries |-> Len(metadata),
          source_breakdown |-> source_breakdown(metadata),
          duplicate_groups |-> Len(duplicates),
          total_duplicates |->
              SumSeq([ i \in 1..Len(duplicates) |-> Len(duplicates[i]) - 1 ]) ]

summary_call ==
    /\ exception_of("get_summary_report", metaFile) = None
    /\ last' = [op |-> "get_summary_report", arg |-> <<>>,
                pre |-> load_metadata(metaFile),
                ret |-> get_summary_report(load_metadata(metaFile)), wrote |-> FALSE,
                again |-> FALSE]
    /\ UNCHANGED <<metaFile, disk, writers, accepted, overlap, dirs, unreadable, run>>

(***************************************************************************)
(* export_metadata_csv                                                     *)
(***************************************************************************)
\* isinstance(value, dict): source_info is the one mapping-valued field
is_dict(key) == key = "source_info"

\* Faulty variant: a nested key is promoted under its own name, not key_sub_key.
flatten_unprefixed(entry) ==
    LET plain == { <<key, entry[key]>> : key \in { k \in DOMAIN entry : ~is_dict(k) } }
        nested == UNION { { <<sub_key, entry[key][sub_key]>> :
                              sub_key \in DOMAIN entry[key] } :
                          key \in { k \in DOMAIN entry : is_dict(k) } }
        pairs == plain \cup nested
    IN  [ col \in { p[1] : p \in pairs } |-> (CHOOSE p \in pairs : p[1] = col)[2] ]

\* the flattened row of one entry, as a function from column name to value
flatten(entry) ==
    LET plain == { <<key, entry[key]>> : key \in { k \in DOMAIN entry : ~is_dict(k) } }
        nested == UNION { { <<key \o "_" \o sub_key, entry[key][sub_key]>> :
                              sub_key \in DOMAIN entry[key] } :
                          key \in { k \in DOMAIN entry : is_dict(k) } }
        pairs == plain \cup nested
    IN  [ col \in { p[1] : p \in pairs } |-> (CHOOSE p \in pairs : p[1] = col)[2] ]

\* every column name the entries of the model can give, in sorted() order
ColumnOrder ==
    << "file_hash", "filename", "filepath",
       "source_info_query", "source_info_url", "source_type" >>

\* sorted(fieldnames)
sorted_fieldnames(metadata) ==
    LET fieldnames == UNION { DOMAIN flatten(metadata[i]) : i \in DOMAIN metadata }
    IN  SelectSeq(ColumnOrder, LAMBDA col : col \in fieldnames)

\* what csv.DictWriter writes: the header, then one row per entry
csv_content(metadata) ==
    LET header == sorted_fieldnames(metadata) IN
    [ header |-> header,
      rows |-> [ i \in 1..Len(metadata) |->
                   [ j \in 1..Len(header) |->
                       GetOr(flatten(metadata[i]), header[j], "") ] ] ]

\* os.path.join(self.base_dir, "dataset_metadata.csv")
output_file == "dataset_metadata.csv"

\* a CSV file an earlier export left at the output path
StaleCsv == csv_content(<< create_metadata_entry("b", "dataset/x.jpg") >>)

\* no file at the output path
NoCsv == [absent |-> TRUE]

\* the CSV file at the output path before a call: none, or an earlier one
CsvFiles == {NoCsv, StaleCsv}

\* Faulty variant: the file is opened and the header written for any store.
written_csv_always(metadata, old_csv) == csv_content(metadata)

\* the CSV file at the output path after the call, old_csv being the one
\* before it: an empty store returns before the file is opened
written_csv(metadata, old_csv) ==
    IF metadata = <<>> THEN old_csv ELSE csv_content(metadata)

export_metadata_csv(old_csv) ==
    LET metadata == load_metadata(metaFile) IN
    /\ exception_of("export_metadata_csv", metaFile) = None
    /\ last' = [op |-> "export_metadata_csv", arg |-> <<>>, pre |-> metadata,
                ret |-> output_file, csv_before |-> old_csv,
                csv |-> written_csv(metadata, old_csv),
                wrote |-> FALSE, again |-> FALSE]
    /\ UNCHANGED <<metaFile, disk, writers, accepted, overlap, dirs, unreadable, run>>

(***************************************************************************)
(* The file system outside the store: files are deleted and (re)created.   *)
(***************************************************************************)
fs_delete(p) ==
    /\ p \in disk
    /\ disk' = disk \ {p}
    /\ unreadable' = unreadable \ {p}
    /\ UNCHANGED <<metaFile, last, writers, accepted, overlap, dirs, run>>

\* the file's permissions are taken away: it stays, open() on it fails
fs_chmod(p) ==
    /\ p \in disk \ unreadable
    /\ unreadable' = unreadable \cup {p}
    /\ UNCHANGED <<metaFile, disk, last, writers, accepted, overlap, dirs, run>>

fs_create(p) ==
    /\ p \notin disk \cup dirs
    /\ dirname(p) \in dirs
    /\ disk' = disk \cup {p}
    /\ UNCHANGED <<metaFile, last, writers, accepted, overlap, dirs, unreadable, run>>

(***************************************************************************)
(* The sequential program: one DatasetManager, one call at a time.         *)
(***************************************************************************)
Writers == {1, 2}

IdleWriters == [ w \in Writers |-> [pc |-> "idle", loaded |-> <<>>, batch |-> <<>>] ]

Init ==
    /\ metaFile \in {Absent, Corrupt, Undecodable, Protected}
    /\ disk = Paths
    /\ last = NoCall
    /\ writers = IdleWriters
    /\ accepted = {}
    /\ overlap = FALSE
    /\ dirs = Folders
    /\ unreadable = {}
    /\ run = NoRun

\* no call is in progress or being observed: the caller is between calls
Idle == last.op = "none"

\* the call returns to its caller, which goes on to its next call
call_returns ==
    /\ ~Idle
    /\ last' = NoCall
    /\ UNCHANGED <<metaFile, disk, writers, accepted, overlap, dirs, unreadable, run>>

\* the call ends with an exception: nothing is written, nothing is returned
call_raises(op) ==
    /\ exception_of(op, metaFile) # None
    /\ last' = [op |-> "raised", arg |-> op, pre |-> <<>>,
                ret |-> exception_of(op, metaFile), wrote |-> FALSE,
                again |-> FALSE]
    /\ UNCHANGED <<metaFile, disk, writers, accepted, overlap, dirs, unreadable, run>>

\* the caller makes the call it has just made once more, with the same input
save_metadata_again ==
    /\ last.op = "save_metadata"
    /\ save_metadata(last.arg)

cleanup_broken_links_again ==
    /\ last.op = "cleanup_broken_links"
    /\ cleanup_broken_links

Next ==
    \/ /\ Idle
       /\ \E metadata_entries \in BoundedSeq(Records, MaxBatch) :
             save_metadata(metadata_entries)
    \/ Idle /\ load_call
    \/ Idle /\ find_duplicates_call
    \/ Idle /\ cleanup_broken_links
    \/ Idle /\ summary_call
    \/ Idle /\ \E old_csv \in CsvFiles : export_metadata_csv(old_csv)
    \/ Idle /\ \E p \in Paths : fs_delete(p)
    \/ Idle /\ \E p \in Paths : fs_create(p)
    \/ Idle /\ \E op \in StoreOps : call_raises(op)
    \/ save_metadata_again
    \/ cleanup_broken_links_again
    \/ call_returns

Spec == Init /\ [][Next]_vars

(***************************************************************************)
(* Parallel writers: two processes run save_metadata on the same backing   *)
(* file.  save_metadata takes no lock, so its three file accesses (the     *)
(* load, the truncating open, the dump) interleave freely.                 *)
(***************************************************************************)
Busy(w) == writers[w].pc \in {"loaded", "opened"}

\* the entries the writer's loop appended to what it loaded
appended(w) ==
    SubSeq(merge_entries(writers[w].loaded, writers[w].batch),
           Len(writers[w].loaded) + 1,
           Len(merge_entries(writers[w].loaded, writers[w].batch)))

\* existing_metadata = self.load_metadata()
writer_load(w, metadata_entries) ==
    /\ writers[w].pc = "idle"
    /\ writers' = [writers EXCEPT ![w] =
                     [pc |-> "loaded", loaded |-> load_metadata(metaFile),
                      batch |-> metadata_entries]]
    /\ overlap' = (overlap \/ \E v \in Writers \ {w} : Busy(v))
    /\ UNCHANGED <<metaFile, disk, last, accepted, dirs, unreadable, run>>

\* with open(self.metadata_file, 'w') as f:
writer_open(w) ==
    /\ writers[w].pc = "loaded"
    /\ writers' = [writers EXCEPT ![w].pc = "opened"]
    /\ metaFile' = truncated
    /\ UNCHANGED <<disk, last, accepted, overlap, dirs, unreadable, run>>

\* json.dump(existing_metadata, f, indent=2), and the file is closed
writer_dump(w) ==
    /\ writers[w].pc = "opened"
    /\ writers' = [writers EXCEPT ![w].pc = "done"]
    /\ metaFile' = json_dump(merge_entries(writers[w].loaded, writers[w].batch))
    /\ accepted' = accepted \cup Range(appended(w))
    /\ UNCHANGED <<disk, last, overlap, dirs, unreadable, run>>

\* the dump lands on what another writer dumped since this writer's open:
\* the bytes of the two documents mix and the file no longer parses
writer_dump_mixed(w) ==
    /\ writers[w].pc = "opened"
    /\ metaFile.state = "valid"
    /\ writers' = [writers EXCEPT ![w].pc = "done"]
    /\ metaFile' = Corrupt
    /\ accepted' = accepted \cup Range(appended(w))
    /\ UNCHANGED <<disk, last, overlap, dirs, unreadable, run>>

InitWriters ==
    /\ metaFile \in {Absent} \cup
                    { json_dump(s) : s \in BoundedSeq(Records, MaxWriterBatch) }
    /\ disk = Paths
    /\ last = NoCall
    /\ writers = IdleWriters
    /\ accepted = {}
    /\ overlap = FALSE
    /\ dirs = Folders
    /\ unreadable = {}
    /\ run = NoRun

NextWriters ==
    \/ \E w \in Writers :
         \E metadata_entries \in BoundedSeq(Records, MaxWriterBatch) :
            writer_load(w, metadata_entries)
    \/ \E w \in Writers : writer_open(w)
    \/ \E w \in Writers : writer_dump(w)
    \/ \E w \in Writers : writer_dump_mixed(w)

SpecWriters == InitWriters /\ [][NextWriters]_vars

(***************************************************************************)
(* The directory catalog: __init__, get_directory, organize_files and      *)
(* get_file_stats, on folders whose files and subdirectories come and go.  *)
(***************************************************************************)
\* the files and subdirectories the catalog model creates
CatalogPaths ==
    { t[3] : t \in { u \in PathTable : u[2] \in {"x.jpg", "y.jpg"} } }

\* the source_dir arguments of organize_files: a folder outside the mapping,
\* a mapped folder, and a folder that never exists
SourceDirs == {"incoming", "dataset", "gone"}

\* the target_type arguments: two categories and a name outside the mapping
TargetTypes == {"video_frames", "web_images", "nowhere"}

\* get_directory (base_dir is the working directory)
get_directory(dir_type) ==
    IF dir_type \in DOMAIN directories THEN directories[dir_type] ELSE dir_type

\* for dir_path in self.directories.values(): os.makedirs(..., exist_ok=True)
DatasetManager_init ==
    /\ dirs' = dirs \cup Folders
    /\ last' = [op |-> "__init__", arg |-> <<>>, pre |-> <<>>, ret |-> None,
                wrote |-> FALSE, again |-> (last.op = "__init__")]
    /\ UNCHANGED <<metaFile, disk, writers, accepted, overlap, unreadable, run>>

\* os.rename(source_file, target_file) succeeds: the target folder exists and
\* the target is not a directory (an existing regular file is replaced)
rename_ok(source_file, target_path) ==
    /\ target_path \in dirs
    /\ join(target_path, basename(source_file)) \notin dirs

\* the files the loop of organize_files renames
moved_files(source_path, target_path) ==
    { f \in listdir(source_path) : isfile(f) /\ rename_ok(f, target_path) }

\* Faulty variant: moved_count is incremented before the rename is tried.
moved_count_attempted(source_path, target_path) ==
    Cardinality({ f \in listdir(source_path) : isfile(f) })

moved_count(source_path, target_path) ==
    Cardinality(moved_files(source_path, target_path))

organize_files(source_dir, target_type) ==
    LET source_path == source_dir
        target_path == get_directory(target_type)
        moved == IF exists(source_path)
                 THEN moved_files(source_path, target_path) ELSE {}
        target_file(f) == join(target_path, basename(f))
    IN  /\ disk' = (disk \ moved) \cup { target_file(f) : f \in moved }
        /\ unreadable' = (unreadable \ moved)
                            \cup { target_file(f) : f \in moved \cap unreadable }
        /\ last' = [op |-> "organize_files", arg |-> <<source_dir, target_type>>,
                    pre |-> <<>>,
                    ret |-> IF exists(source_path)
                            THEN moved_count(source_path, target_path) ELSE 0,
                    wrote |-> FALSE, again |-> FALSE]
        /\ UNCHANGED <<metaFile, writers, accepted, overlap, dirs, run>>

file_stats_call ==
    /\ last' = [op |-> "get_file_stats", arg |-> <<>>, pre |-> <<>>,
                ret |-> get_file_stats, wrote |-> FALSE, again |-> FALSE]
    /\ UNCHANGED <<metaFile, disk, writers, accepted, overlap, dirs, unreadable, run>>

\* a directory is made: a subdirectory of an existing folder, or "incoming"
fs_mkdir(p) ==
    /\ p \notin disk \cup dirs
    /\ p \in CatalogPaths => dirname(p) \in dirs
    /\ dirs' = dirs \cup {p}
    /\ UNCHANGED <<metaFile, disk, last, writers, accepted, overlap, unreadable, run>>

\* a folder is removed with everything in it
fs_rmtree(folder) ==
    /\ folder \in dirs
    /\ dirs' = dirs \ ({folder} \cup listdir(folder))
    /\ disk' = disk \ listdir(folder)
    /\ unreadable' = unreadable \ listdir(folder)
    /\ UNCHANGED <<metaFile, last, writers, accepted, overlap, run>>

InitCatalog ==
    /\ metaFile = Absent
    /\ disk = {}
    /\ last = NoCall
    /\ writers = IdleWriters
    /\ accepted = {}
    /\ overlap = FALSE
    /\ dirs = Folders
    /\ unreadable = {}
    /\ run = NoRun

NextCatalog ==
    \/ Idle /\ DatasetManager_init
    \/ last.op = "__init__" /\ DatasetManager_init
    \/ Idle /\ \E source_dir \in SourceDirs, target_type \in TargetTypes :
                  organize_files(source_dir, target_type)
    \/ Idle /\ file_stats_call
    \/ Idle /\ \E p \in CatalogPaths : fs_create(p)
    \/ Idle /\ \E p \in CatalogPaths : fs_delete(p)
    \/ Idle /\ \E p \in CatalogPaths \cup {"incoming"} : fs_mkdir(p)
    \/ Idle /\ \E folder \in {"incoming", "dataset", "real_images"} : fs_rmtree(folder)
    \/ call_returns

SpecCatalog == InitCatalog /\ [][NextCatalog]_vars

(***************************************************************************)
(* Reports: get_summary_report and export_metadata_csv on stores whose     *)
(* entries differ in their keys (save_metadata stores any list of dicts).  *)
(***************************************************************************)
MaxReport == 3      \* longest store the reports are taken of

\* entries with a source_info of one key each, an empty source_info, none,
\* and an entry that has no source_type
ReportRecords ==
    { [file_hash |-> "a", source_type |-> "web_gallery",
       source_info |-> [url |-> "http://x"]],
      [file_hash |-> "b", source_type |-> "google_images",
       source_info |-> [query |-> "y"]],
      [filename |-> "x.jpg", filepath |-> "dataset/x.jpg", file_hash |-> "a",
       source_type |-> "youtube_frame", source_info |-> <<>>],
      create_metadata_entry("c", "web_images/y.jpg"),
      [filename |-> "y.jpg", filepath |-> "web_images/y.jpg", file_hash |-> ""] }

InitReport ==
    /\ metaFile \in {Absent, Corrupt, Undecodable} \cup
                    { json_dump(s) : s \in BoundedSeq(ReportRecords, MaxReport) }
    /\ disk \in SUBSET Paths
    /\ last = NoCall
    /\ writers = IdleWriters
    /\ accepted = {}
    /\ overlap = FALSE
    /\ dirs = Folders
    /\ unreadable = {}
    /\ run = NoRun

NextReport ==
    \/ Idle /\ summary_call
    \/ Idle /\ \E old_csv \in CsvFiles : export_metadata_csv(old_csv)
    \/ Idle /\ \E op \in {"get_summary_report", "export_metadata_csv"} :
                  call_raises(op)
    \/ call_returns

SpecReport == InitReport /\ [][NextReport]_vars

(***************************************************************************)
(* One run of the orchestrator (src/scraper_modular.py): a collector       *)
(* gathers files (image downloads, or the frames of a video), an entry is  *)
(* created for each file, and the entries are saved to the store.          *)
(***************************************************************************)
Modes == {"youtube", "gallery", "google_images"}

\* the names of the files a collector can write, in the order it meets them
Candidates == <<"x.jpg", "y.jpg", "z.jpg">>

\* the values given as --num-images
MaxImagesChoices == {-1, 0, 1, 2}

\* the digests of the contents a collected file can have
ContentHashes == {"a", "b"}

\* args.outdir / args.web_outdir
output_dir(mode) == IF mode = "youtube" THEN "dataset" ELSE "web_images"

\* the name under which a collector call shows in the record of calls
collector(mode) ==
    IF mode = "youtube" THEN "extract_frames"
    ELSE IF mode = "gallery" THEN "scrape_gallery" ELSE "scrape_google_images"

\* the source_type the mode hands to create_metadata_entry
source_type(mode) ==
    IF mode = "youtube" THEN "youtube_frame"
    ELSE IF mode = "gallery" THEN "web_gallery" ELSE "google_images"

\* s[:m]: a negative m counts from the end of the list
slice_to(s, m) ==
    SubSeq(s, 1, IF m >= Len(s) THEN Len(s)
                 ELSE IF m >= 0 THEN m
                 ELSE IF Len(s) + m > 0 THEN Len(s) + m ELSE 0)

\* run_gallery_mode / run_google_images_mode up to the download loop: the
\* page is fetched (or not: the scrape returns []) and the images found on
\* it are cut to max_images
run_web_mode(mode, max_images, fetched, found) ==
    /\ run.pc = "idle"
    /\ mode \in {"gallery", "google_images"}
    /\ ~fetched => found = <<>>
    /\ run' = [mode |-> mode, pc |-> "collecting", max_images |-> max_images,
               found |-> found, todo |-> slice_to(found, max_images),
               attempts |-> <<>>, files |-> <<>>, entries |-> <<>>]
    /\ UNCHANGED <<metaFile, disk, last, writers, accepted, overlap, dirs, unreadable>>

\* run_youtube_mode up to the frame loop of extract_frames: no video came
\* (the download failed or nothing is left to process) and the run is over,
\* or the video is read (an unopenable one gives no frame) and its selected
\* frames are written one by one
run_youtube_mode(downloaded, found) ==
    /\ run.pc = "idle"
    /\ ~downloaded => found = <<>>
    /\ run' = [mode |-> "youtube", pc |-> IF downloaded THEN "collecting" ELSE "done",
               max_images |-> None, found |-> found, todo |-> found,
               attempts |-> <<>>, files |-> <<>>, entries |-> <<>>]
    /\ UNCHANGED <<metaFile, disk, last, writers, accepted, overlap, dirs, unreadable>>

\* Faulty variant: the path is appended whether or not the file was written.
appends_path_always(mode, ok) == TRUE

\* whether the collector's loop appends the path of the item to its result
appends_path(mode, ok) == ok \/ mode = "youtube"

\* one pass of the collector's loop.  _download_image returns the path of
\* the file it wrote, or None after any exception, and a None is not
\* appended; cv2.imwrite reports a failed write by its return value, which
\* extract_frames does not look at: the path is appended either way
collect_item(ok) ==
    LET filepath == join(output_dir(run.mode), Head(run.todo)) IN
    /\ run.pc = "collecting" /\ run.todo # <<>>
    /\ disk' = IF ok THEN disk \cup {filepath} ELSE disk
    /\ run' = [run EXCEPT !.todo = Tail(run.todo),
                          !.attempts = Append(run.attempts,
                                              [filepath |-> filepath, ok |-> ok]),
                          !.files = IF appends_path(run.mode, ok)
                                    THEN Append(run.files, filepath) ELSE run.files]
    /\ UNCHANGED <<metaFile, last, writers, accepted, overlap, dirs, unreadable>>

\* return downloaded_files / return extracted_frames
collector_returns ==
    /\ run.pc = "collecting" /\ run.todo = <<>>
    /\ run' = [run EXCEPT !.pc = "collected"]
    /\ last' = [op |-> collector(run.mode), arg |-> run.max_images,
                pre |-> run.attempts, ret |-> run.files, wrote |-> FALSE,
                again |-> FALSE]
    /\ UNCHANGED <<metaFile, disk, writers, accepted, overlap, dirs, unreadable>>

\* os.stat(filepath) raises FileNotFoundError
stat_raises(filepath) == ~exists(filepath)

\* _calculate_file_hash of a file whose content has the digest content_hash
calculate_file_hash(filepath, content_hash) ==
    IF filepath \in disk \ unreadable THEN content_hash ELSE ""

\* the loop over the collected files: the web modes skip a path that no
\* longer exists, the YouTube mode does not; create_metadata_entry calls
\* os.stat before it hashes, and nothing catches what os.stat raises
create_entries ==
    LET paths == IF run.mode = "youtube" THEN run.files
                 ELSE SelectSeq(run.files, exists)
    IN  /\ run.pc = "collected"
        /\ IF run.files = <<>>
           THEN /\ run' = [run EXCEPT !.pc = "done"]
                /\ last' = NoCall
           ELSE IF \E i \in DOMAIN paths : stat_raises(paths[i])
           THEN /\ run' = [run EXCEPT !.pc = "crashed"]
                /\ last' = [op |-> "raised", arg |-> "create_metadata_entry",
                            pre |-> <<>>, ret |-> "FileNotFoundError",
                            wrote |-> FALSE, again |-> FALSE]
           ELSE \E content_hash \in [DOMAIN paths -> ContentHashes] :
                  /\ run' = [run EXCEPT
                               !.pc = "entries",
                               !.entries =
                                 [ i \in DOMAIN paths |->
                                     [create_metadata_entry(
                                        calculate_file_hash(paths[i], content_hash[i]),
                                        paths[i])
                                      EXCEPT !.source_type = source_type(run.mode)] ]]
                  /\ last' = [op |-> "create_metadata_entry", arg |-> paths,
                              pre |-> <<>>, ret |-> run'.entries, wrote |-> FALSE,
                              again |-> FALSE]
        /\ UNCHANGED <<metaFile, disk, writers, accepted, overlap, dirs, unreadable>>

\* self.dataset_manager.save_metadata(metadata_entries), and the run ends
run_save ==
    LET existing_metadata == load_metadata(metaFile) IN
    /\ run.pc = "entries"
    /\ IF exception_of("save_metadata", metaFile) # None
       THEN /\ run' = [run EXCEPT !.pc = "crashed"]
            /\ last' = [op |-> "raised", arg |-> "save_metadata", pre |-> <<>>,
                        ret |-> exception_of("save_metadata", metaFile),
                        wrote |-> FALSE, again |-> FALSE]
            /\ UNCHANGED metaFile
       ELSE /\ run' = [run EXCEPT !.pc = "done"]
            /\ metaFile' = json_dump(merge_entries(existing_metadata, run.entries))
            /\ last' = [op |-> "save_metadata", arg |-> run.entries,
                        pre |-> existing_metadata, ret |-> None, wrote |-> TRUE,
                        again |-> FALSE]
    /\ UNCHANGED <<disk, writers, accepted, overlap, dirs, unreadable>>

InitRun ==
    /\ metaFile \in {Absent, Undecodable, Protected}
    /\ disk = {}
    /\ last = NoCall
    /\ writers = IdleWriters
    /\ accepted = {}
    /\ overlap = FALSE
    /\ dirs = Folders
    /\ unreadable = {}
    /\ run = NoRun

\* the lists of names a page or a video can give
Found == { SubSeq(Candidates, 1, k) : k \in 0..Len(Candidates) }

NextRun ==
    \/ \E mode \in Modes, max_images \in MaxImagesChoices,
          fetched \in BOOLEAN, found \in Found :
            run_web_mode(mode, max_images, fetched, found)
    \/ \E downloaded \in BOOLEAN, found \in Found : run_youtube_mode(downloaded, found)
    \/ \E ok \in BOOLEAN : collect_item(ok)
    \/ collector_returns
    \/ run.pc = "collected" /\ \E p \in disk : fs_delete(p)
    \/ run.pc = "collected" /\ \E p \in disk : fs_chmod(p)
    \/ create_entries
    \/ run_save

SpecRun == InitRun /\ [][NextRun]_vars

(***************************************************************************)
(* The store over time: entries are saved, their files deleted, the store  *)
(* cleaned, and entries of the same content saved again.                   *)
(***************************************************************************)
\* two files of one content and a file of another
DedupRecords ==
    { create_metadata_entry("a", "dataset/x.jpg"),
      create_metadata_entry("a", "web_images/y.jpg"),
      create_metadata_entry("b", "dataset/x.jpg") }

InitDedup ==
    /\ metaFile = Absent
    /\ disk = Paths
    /\ last = NoCall
    /\ writers = IdleWriters
    /\ accepted = {}
    /\ overlap = FALSE
    /\ dirs = Folders
    /\ unreadable = {}
    /\ run = NoRun

NextDedup ==
    \/ Idle /\ \E entry \in DedupRecords : save_metadata_recorded(<<entry>>)
    \/ Idle /\ cleanup_broken_links
    \/ Idle /\ \E p \in Paths : fs_delete(p)
    \/ Idle /\ \E p \in Paths : fs_create(p)
    \/ call_returns

SpecDedup == InitDedup /\ [][NextDedup]_vars

(***************************************************************************)
(* Vocabulary of the properties.                                           *)
(***************************************************************************)
\* the persisted store, as a load sees it
store == load_metadata(metaFile)

HashOf(entry) == Get(entry, "file_hash")

HashSeq(s) == [ i \in DOMAIN s |-> HashOf(s[i]) ]

CountHash(s, h) == Cardinality({ i \in DOMAIN s : HashOf(s[i]) = h })

CountEntry(s, e) == Cardinality({ i \in DOMAIN s : s[i] = e })

IsPrefix(s, t) == Len(s) <= Len(t) /\ SubSeq(t, 1, Len(s)) = s

\* s can be had from t by deleting elements, the rest keeping their order
RECURSIVE IsSubseq(_, _)
IsSubseq(s, t) ==
    IF s = <<>> THEN TRUE
    ELSE IF t = <<>> THEN FALSE
    ELSE IF Head(s) = Head(t) THEN IsSubseq(Tail(s), Tail(t))
    ELSE IsSubseq(s, Tail(t))

\* what the last save_metadata call added behind the entries it loaded
Suffix == SubSeq(store, Len(last.pre) + 1, Len(store))

Saved == last.op = "save_metadata"

Cleaned == last.op = "cleanup_broken_links"

(***************************************************************************)
(* C1: after any save_metadata call the persisted store holds no two       *)
(* entries with the same non-empty file_hash.                              *)
(***************************************************************************)
C1_NoDuplicateHashAfterSave ==
    Saved =>
      \A i, j \in DOMAIN store :
         (i # j /\ Truthy(HashOf(store[i]))) => HashOf(store[i]) # HashOf(store[j])

(***************************************************************************)
(* C2: save_metadata is idempotent in store size: the same call made a     *)
(* second time, right after the first, leaves the number of entries as the *)
(* first call left it.                                                     *)
(***************************************************************************)
C2_SaveTwiceSameSize ==
    [][ (Saved /\ last'.op = "save_metadata" /\ last'.arg = last.arg)
          => Len(load_metadata(metaFile')) = Len(load_metadata(metaFile)) ]_vars

\* a second identical call was made with a batch the first call took entries from
C2_Witness ==
    /\ Saved /\ last.again
    /\ \E i \in DOMAIN last.arg : last.arg[i] \in Range(store)
    /\ Len(store) = Len(last.pre)

(***************************************************************************)
(* C3: entries with the empty file_hash are never deduplicated: every      *)
(* save_metadata call appends every empty-hash entry of its input.         *)
(***************************************************************************)
C3_EmptyHashAlwaysAppended ==
    Saved => CountHash(store, "") = CountHash(last.pre, "") + CountHash(last.arg, "")

(***************************************************************************)
(* C4: an entry already in the store with a non-empty hash h is never      *)
(* displaced by a save_metadata call: it stays, unchanged, where it was,   *)
(* and every input entry with hash h is dropped.                           *)
(***************************************************************************)
C4_FirstInsertedSurvives ==
    Saved =>
      /\ \A i \in DOMAIN last.pre : i \in DOMAIN store /\ store[i] = last.pre[i]
      /\ \A h \in Range(HashSeq(last.pre)) :
            Truthy(h) => CountHash(store, h) = CountHash(last.pre, h)

\* an input entry was dropped because another entry of its hash was there first
C4_Witness ==
    /\ Saved
    /\ \E i \in DOMAIN last.arg :
          /\ Truthy(HashOf(last.arg[i]))
          /\ HashOf(last.arg[i]) \in Range(HashSeq(last.pre))
          /\ last.arg[i] \notin Range(store)
    /\ Len(store) > Len(last.pre)

(***************************************************************************)
(* C5: with parallel writers a completed save_metadata can lose an entry   *)
(* it appended, and only when two calls overlapped: whenever no writer is  *)
(* inside a call and an appended entry is missing from the persisted       *)
(* store, some call loaded while another was between its load and its      *)
(* dump.                                                                   *)
(***************************************************************************)
Quiescent == \A w \in Writers : ~Busy(w)

Lost == \E e \in accepted : e \notin Range(store)

C5_LostOnlyWhenOverlapped == (Quiescent /\ Lost) => overlap

\* the lost update: both writers appended and are done, the file parses, and
\* an appended entry is gone
C5_Witness ==
    /\ \A w \in Writers : writers[w].pc = "done" /\ appended(w) # <<>>
    /\ metaFile.state = "valid"
    /\ Lost

(***************************************************************************)
(* C6: a persisted entry is destroyed only by cleanup_broken_links and     *)
(* only when its filepath does not exist on disk; save_metadata,           *)
(* load_metadata, find_duplicates, export_metadata_csv and                 *)
(* get_summary_report remove and change nothing, so the store before a     *)
(* save_metadata is a prefix of the store after it.                        *)
(***************************************************************************)
C6_DestroyedOnlyByCleanup ==
    /\ Saved => IsPrefix(last.pre, store)
    /\ last.op \in {"load_metadata", "find_duplicates", "export_metadata_csv",
                    "get_summary_report"} => store = last.pre
    /\ Cleaned =>
         /\ Range(store) \subseteq Range(last.pre)
         /\ \A e \in Range(last.pre) :
               CountEntry(store, e) < CountEntry(last.pre, e)
                  => Get(e, "filepath") \notin disk

\* a cleanup destroyed an entry and kept another
C6_Witness == Cleaned /\ last.ret > 0 /\ store # <<>>

(***************************************************************************)
(* C7: every operation preserves the order of the store: save_metadata     *)
(* keeps the existing entries in their order and appends the accepted      *)
(* input entries behind them in input order; cleanup_broken_links keeps    *)
(* the surviving entries in their relative order.                          *)
(***************************************************************************)
C7_OrderPreserved ==
    /\ Saved => IsPrefix(last.pre, store) /\ IsSubseq(Suffix, last.arg)
    /\ Cleaned => IsSubseq(store, last.pre)

\* two different entries were appended behind a non-empty store
C7_Witness ==
    /\ Saved
    /\ last.pre # <<>>
    /\ Len(Suffix) = 2
    /\ Suffix[1] # Suffix[2]

(***************************************************************************)
(* C8: a store with hashes [a, a, b], given entries with hashes [b, c],    *)
(* becomes a 4-entry store with hashes [a, a, b, c].                       *)
(***************************************************************************)
C8_Scenario ==
    (Saved /\ HashSeq(last.pre) = <<"a", "a", "b">>
           /\ HashSeq(last.arg) = <<"b", "c">>)
      => (Len(store) = 4 /\ HashSeq(store) = <<"a", "a", "b", "c">>)

C8_Witness ==
    /\ Saved
    /\ HashSeq(last.pre) = <<"a", "a", "b">>
    /\ HashSeq(last.arg) = <<"b", "c">>

(***************************************************************************)
(* C9: find_duplicates returns only groups of two or more entries sharing  *)
(* one non-empty hash, one group per such hash; the sum of (size - 1) over *)
(* the groups is get_summary_report's total_duplicates and their number    *)
(* is its duplicate_groups.                                                *)
(***************************************************************************)
\* the non-empty hashes that two or more entries of s carry
SharedHashes(s) == { h \in Range(HashSeq(s)) : Truthy(h) /\ CountHash(s, h) >= 2 }

C9_DuplicateGroups ==
    /\ last.op = "find_duplicates" =>
         /\ \A k \in DOMAIN last.ret :
               /\ Len(last.ret[k]) >= 2
               /\ \E h \in SharedHashes(last.pre) :
                     /\ \A i \in DOMAIN last.ret[k] : HashOf(last.ret[k][i]) = h
                     /\ Len(last.ret[k]) = CountHash(last.pre, h)
         /\ Len(last.ret) = Cardinality(SharedHashes(last.pre))
    /\ last.op = "get_summary_report" =>
         LET groups == find_duplicates(last.pre) IN
         /\ last.ret.duplicate_groups = Len(groups)
         /\ last.ret.total_duplicates
              = SumSeq([ k \in DOMAIN groups |-> Len(groups[k]) - 1 ])
         /\ last.ret.total_duplicates + Cardinality(SharedHashes(last.pre))
              = Cardinality({ i \in DOMAIN last.pre :
                                 HashOf(last.pre[i]) \in SharedHashes(last.pre) })

\* duplicates were found in a store that also holds two empty-hash entries
C9_Witness ==
    /\ last.op = "find_duplicates"
    /\ last.ret # <<>>
    /\ CountHash(last.pre, "") >= 2

(***************************************************************************)
(* C10: cleanup_broken_links removes exactly the entries whose filepath    *)
(* does not exist on disk, returns their number, and leaves persisted      *)
(* exactly the entries whose filepath exists.                              *)
(***************************************************************************)
C10_CleanupExact ==
    Cleaned =>
      /\ \A e \in Range(last.pre) \cup Range(store) :
            CountEntry(store, e) =
               IF Get(e, "filepath") \in disk THEN CountEntry(last.pre, e) ELSE 0
      /\ last.ret = Cardinality({ i \in DOMAIN last.pre :
                                    Get(last.pre[i], "filepath") \notin disk })

\* three entries, the file of one deleted: 1 is returned and 2 entries are left
C10_Witness ==
    /\ Cleaned
    /\ Len(last.pre) = 3
    /\ last.ret = 1
    /\ Len(store) = 2


(***************************************************************************)
(* C11: cleanup_broken_links is idempotent: called a second time right     *)
(* after a first call, with no change on disk and no other store call in   *)
(* between, it returns 0 and leaves the backing file as the first call     *)
(* left it.                                                                *)
(***************************************************************************)
C11_CleanupIdempotent ==
    [][ (Cleaned /\ last'.op = "cleanup_broken_links"
           /\ disk' = disk /\ dirs' = dirs)
        => (last'.ret = 0 /\ metaFile' = metaFile) ]_vars

\* a second call returned 0 on a store the first call had to shorten
C11_Witness ==
    /\ Cleaned /\ last.again /\ last.ret = 0
    /\ store # <<>> /\ disk # Paths

(***************************************************************************)
(* C12: cleanup_broken_links writes the backing file only when it removed  *)
(* at least one entry: when every entry's filepath exists, or the store is *)
(* empty or absent, the backing file is left as it was and is not created. *)
(***************************************************************************)
C12_CleanupWritesOnlyOnRemoval ==
    [][ last'.op = "cleanup_broken_links" =>
          /\ last'.wrote => last'.ret > 0
          /\ (\A i \in DOMAIN store : exists(Get(store[i], "filepath")))
               => (metaFile' = metaFile /\ ~last'.wrote) ]_vars

\* a call on an absent backing file returned without creating it
C12_Witness == Cleaned /\ ~last.wrote /\ last.ret = 0 /\ metaFile = Absent

(***************************************************************************)
(* C13: load_metadata never raises: it returns the persisted list when the *)
(* backing file exists and parses, and the empty list when the backing     *)
(* file is absent, unreadable or fails to parse (load_call assigns nothing *)
(* to the backing file).                                                   *)
(***************************************************************************)
C13_LoadNeverRaises ==
    /\ ~(last.op = "raised" /\ last.arg = "load_metadata")
    /\ last.op = "load_metadata" =>
         last.ret = IF metaFile.state = "valid" THEN metaFile.data ELSE <<>>

(***************************************************************************)
(* C17: organize_files skips a file it cannot move and goes on with the    *)
(* others: every regular file of the source folder whose rename can        *)
(* succeed is at its target afterwards, every other one stays where it     *)
(* was, and the call returns the number of files it moved; it returns 0    *)
(* and changes nothing when the source folder is absent; it never moves a  *)
(* subdirectory.                                                           *)
(***************************************************************************)
C17_OrganizeSkipsAndCounts ==
    [][ last'.op = "organize_files" =>
          LET source_path == last'.arg[1]
              target_path == get_directory(last'.arg[2])
              files == { p \in disk : \E t \in PathTable :
                                         t[1] = source_path /\ t[3] = p }
              target(f) == join(target_path, basename(f))
              movable(f) == target_path \in dirs /\ target(f) \notin dirs
              moved == { f \in files :
                           /\ target_path \in dirs
                           /\ target(f) \in disk'
                           /\ (f \notin disk' \/ f = target(f)) }
          IN  /\ last'.ret = Cardinality(moved)
              /\ \A f \in files : movable(f) => f \in moved
              /\ \A f \in files : ~movable(f) => (f \in disk' /\ f \notin moved)
              /\ source_path \notin dirs => (last'.ret = 0 /\ disk' = disk)
              /\ dirs' = dirs ]_vars

\* a call moved one file and left behind the file whose target is a directory
C17_Witness ==
    /\ last.op = "organize_files" /\ last.arg = <<"incoming", "video_frames">>
    /\ last.ret = 1
    /\ "incoming/y.jpg" \in disk /\ "dataset/y.jpg" \in dirs
    /\ "dataset/x.jpg" \in disk /\ "incoming/x.jpg" \notin disk \cup dirs

(***************************************************************************)
(* C20: constructing the catalog creates the four mapped folders and is    *)
(* idempotent: with the folders there it changes nothing.  get_file_stats  *)
(* reports for each category the number of regular files directly in its   *)
(* folder, subdirectories not counted, and 0 for a folder that is gone.    *)
(***************************************************************************)
C20_CatalogFoldersAndStats ==
    [][ /\ last'.op = "__init__" =>
             /\ dirs' = dirs \cup {"downloads", "dataset", "web_images", "real_images"}
             /\ disk' = disk
             /\ {"downloads", "dataset", "web_images", "real_images"} \subseteq dirs
                  => dirs' = dirs
        /\ last'.op = "get_file_stats" =>
             /\ DOMAIN last'.ret = {"videos", "video_frames", "web_images", "real_images"}
             /\ \A dir_type \in DOMAIN last'.ret :
                  last'.ret[dir_type] =
                    IF directories[dir_type] \in dirs'
                    THEN Cardinality({ t \in PathTable :
                                         /\ t[1] = directories[dir_type]
                                         /\ t[3] \in disk' })
                    ELSE 0 ]_vars

\* the counts were taken with a file next to a subdirectory in one folder
\* and another folder gone
C20_Witness ==
    /\ last.op = "get_file_stats"
    /\ "dataset/x.jpg" \in disk /\ "dataset/y.jpg" \in dirs
    /\ "real_images" \notin dirs
    /\ last.ret["video_frames"] = 1 /\ last.ret["real_images"] = 0

(***************************************************************************)
(* C18: export_metadata_csv on a store that holds entries writes a header  *)
(* that is the sorted union of the flattened column names of all entries   *)
(* (a nested mapping field k with sub-key s gives the column k_s), then    *)
(* one row per entry in store order, a row holding the entry's value in    *)
(* each column the entry has and the empty value in each column it lacks.  *)
(***************************************************************************)
ColumnsOf(entry) ==
    (DOMAIN entry \ {"source_info"}) \cup
      (IF "source_info" \in DOMAIN entry
       THEN { "source_info_" \o sub_key : sub_key \in DOMAIN entry["source_info"] }
       ELSE {})

CellOf(entry, column) ==
    IF column \in DOMAIN entry \ {"source_info"} THEN entry[column]
    ELSE IF column = "source_info_url" /\ column \in ColumnsOf(entry)
         THEN entry["source_info"]["url"]
    ELSE IF column = "source_info_query" /\ column \in ColumnsOf(entry)
         THEN entry["source_info"]["query"]
    ELSE ""

C18_CsvHeaderAndRows ==
    (last.op = "export_metadata_csv" /\ store # <<>>) =>
      LET header == last.csv.header
          rows == last.csv.rows
      IN  /\ Range(header) = UNION { ColumnsOf(store[i]) : i \in DOMAIN store }
          /\ IsSubseq(header, <<"file_hash", "filename", "filepath",
                                "source_info_query", "source_info_url",
                                "source_type">>)
          /\ Len(rows) = Len(store)
          /\ \A i \in DOMAIN store :
               /\ Len(rows[i]) = Len(header)
               /\ \A j \in DOMAIN header : rows[i][j] = CellOf(store[i], header[j])

\* the export of an entry with source_info {url} followed by one with {query}
C18_Witness ==
    /\ last.op = "export_metadata_csv"
    /\ store = << [file_hash |-> "a", source_type |-> "web_gallery",
                   source_info |-> [url |-> "http://x"]],
                  [file_hash |-> "b", source_type |-> "google_images",
                   source_info |-> [query |-> "y"]] >>
    /\ last.csv.header = <<"file_hash", "source_info_query", "source_info_url",
                           "source_type">>
    /\ last.csv.rows = << <<"a", "", "http://x", "web_gallery">>,
                          <<"b", "y", "", "google_images">> >>

(***************************************************************************)
(* C19: get_summary_report gives metadata_entries equal to the number of   *)
(* entries in the store and a source_breakdown whose counts sum to it, an  *)
(* entry without a source_type being counted under 'unknown'; total_files  *)
(* is the sum of the per-category file counts.                             *)
(***************************************************************************)
C19_SummaryCounts ==
    last.op = "get_summary_report" =>
      LET report == last.ret
          untyped == { i \in DOMAIN store : "source_type" \notin DOMAIN store[i] }
      IN  /\ report.metadata_entries = Len(store)
          /\ SumOver(report.source_breakdown, DOMAIN report.source_breakdown)
               = report.metadata_entries
          /\ untyped # {} =>
               /\ "unknown" \in DOMAIN report.source_breakdown
               /\ report.source_breakdown["unknown"] = Cardinality(untyped)
          /\ \A t \in DOMAIN report.source_breakdown \ {"unknown"} :
               report.source_breakdown[t] =
                 Cardinality({ i \in DOMAIN store \ untyped : store[i]["source_type"] = t })
          /\ report.total_files =
               report.file_counts["videos"] + report.file_counts["video_frames"]
                 + report.file_counts["web_images"] + report.file_counts["real_images"]

\* a report on a store with an entry that has no source_type, files on disk
C19_Witness ==
    /\ last.op = "get_summary_report"
    /\ "unknown" \in DOMAIN last.ret.source_breakdown
    /\ last.ret.metadata_entries = 3 /\ last.ret.total_files = 2

(***************************************************************************)
(* C14: for a file that cannot be read the hasher returns the empty string *)
(* and nothing is raised: create_metadata_entry for such a file gives an   *)
(* entry with the empty file_hash, never an exception.                     *)
(***************************************************************************)
C14_UnreadableFileGivesEmptyHash ==
    /\ ~(last.op = "raised" /\ last.arg = "create_metadata_entry")
    /\ last.op = "create_metadata_entry" =>
         \A i \in DOMAIN last.ret :
            last.ret[i]["filepath"] \notin disk \ unreadable
              => last.ret[i]["file_hash"] = ""

(***************************************************************************)
(* C15: no I/O failure ends a run of the orchestrator: whatever fetch,     *)
(* download, frame write, hash, stat or store access fails, the run goes   *)
(* on with what it has and is never ended by an exception.                 *)
(***************************************************************************)
C15_RunNeverEndedByFailure == run.pc # "crashed"

C21_UnparseableFileOverwritten ==
    /\ (Saved /\ last.found = "corrupt") => metaFile = json_dump(last.arg)
    /\ ~(last.op = "raised" /\ last.arg = "save_metadata"
           /\ metaFile.state = "undecodable")

\* the part of C21 about a file that decodes and is not JSON
C21_CorruptFileOverwritten ==
    (Saved /\ last.found = "corrupt") => metaFile = json_dump(last.arg)

\* two entries of one hash were written over a file that was not JSON
C21_Witness ==
    /\ Saved /\ last.found = "corrupt"
    /\ HashSeq(store) = <<"a", "a">>

(***************************************************************************)
(* C22: save_metadata deduplicates against the store it loads, not against *)
(* what was stored before: an input entry whose hash no entry of the       *)
(* loaded store carries is appended, also when an entry of that hash was   *)
(* persisted earlier and has since been removed by cleanup_broken_links.   *)
(***************************************************************************)
C22_DedupAgainstCurrentStoreOnly ==
    Saved =>
      \A i \in DOMAIN last.arg :
         HashOf(last.arg[i]) \notin Range(HashSeq(last.pre))
           => last.arg[i] \in Range(store)

\* r was persisted, its file deleted and r cleaned away; r' of the same
\* hash was then saved: the store holds r' and not r
C22_Witness ==
    /\ Saved
    /\ create_metadata_entry("a", "dataset/x.jpg") \in accepted
    /\ "dataset/x.jpg" \notin disk
    /\ store = << create_metadata_entry("a", "web_images/y.jpg") >>

(***************************************************************************)
(* C23: load_metadata, find_duplicates, get_summary_report and             *)
(* export_metadata_csv only read the store: a call of any of them leaves   *)
(* the persisted entries, and whether the backing file exists, as they     *)
(* were.                                                                   *)
(***************************************************************************)
C23_ReadersLeaveStoreAlone ==
    [][ (\/ last'.op \in {"load_metadata", "find_duplicates",
                          "get_summary_report", "export_metadata_csv"}
         \/ (last'.op = "raised" /\ last'.arg # "save_metadata"))
        => metaFile' = metaFile ]_vars

\* a load found no backing file and left none behind
C23_Witness == last.op = "load_metadata" /\ metaFile = Absent

(***************************************************************************)
(* C29: export_metadata_csv on a store without entries (backing file       *)
(* absent, unparseable or holding the empty list) writes nothing: the CSV  *)
(* file at the output path is neither created nor changed, and the output  *)
(* path is returned all the same.                                          *)
(***************************************************************************)
C29_EmptyExportWritesNothing ==
    /\ (last.op = "export_metadata_csv" /\ store = <<>>) =>
         (last.csv = last.csv_before /\ last.ret = "dataset_metadata.csv")
    /\ ~(last.op = "raised" /\ last.arg = "export_metadata_csv")

\* the part of C29 about the calls that return
C29_EmptyStoreLeavesCsvAlone ==
    (last.op = "export_metadata_csv" /\ store = <<>>) =>
      (last.csv = last.csv_before /\ last.ret = "dataset_metadata.csv")

\* an export on an unparseable backing file, with no CSV file before or after
C29_Witness ==
    /\ last.op = "export_metadata_csv" /\ metaFile = Corrupt
    /\ last.csv_before = NoCsv /\ last.csv = NoCsv

\* ------------------------------------------------------------------------
\* src/youtube_processor.py: video files, frame files, FrameExtractor
\* ------------------------------------------------------------------------
\* A file name is kept as its parts, the title as its characters, so that
\* lower(), the `in` test on a path and _clean_filename are computed.
MaxFps == 4         \* largest frame rate of a video and of a request
MaxFrames == 6      \* most frames a video holds

download_dir == "downloads"

Chars(s) ==
    CASE s = "downloads" -> <<"d", "o", "w", "n", "l", "o", "a", "d", "s">>
      [] s = "mp4" -> <<"m", "p", "4">>
      [] s = "webm" -> <<"w", "e", "b", "m">>
      [] s = "mkv" -> <<"m", "k", "v">>
      [] s = "txt" -> <<"t", "x", "t">>

\* os.path.join(self.download_dir, '<title>.<ext>')
video_file(title, ext) == [dir |-> download_dir, title |-> title, ext |-> ext]

\* the path string glob returns for the file
path_chars(file) ==
    Chars(file.dir) \o <<"/">> \o file.title \o <<".">> \o Chars(file.ext)

AlnumChars == {"a", "b", "c", "A", "B", "C"}

\* FrameExtractor._clean_filename: keep alphanumerics, ' ', '-', '_';
\* rstrip(); then every space becomes an underscore
RECURSIVE rstrip(_)
rstrip(s) ==
    IF s # <<>> /\ s[Len(s)] = " " THEN rstrip(SubSeq(s, 1, Len(s) - 1)) ELSE s

clean_filename(filename) ==
    LET kept == SelectSeq(filename, LAMBDA c : c \in AlnumChars \cup {" ", "-", "_"})
        clean == rstrip(kept)
    IN  [ i \in DOMAIN clean |-> IF clean[i] = " " THEN "_" ELSE clean[i] ]

\* os.path.join(output_dir, f"{clean_name}_frame_{frame_count:06d}.jpg")
frame_path(outdir, clean_name, frame_count) ==
    [dir |-> outdir, name |-> clean_name, frame |-> frame_count]

\* frame_interval = int(original_fps / target_fps), both positive
frame_interval_of(original_fps, target_fps) == original_fps \div target_fps

\* the read loop: frame_count runs over the frames cap.read() delivers, and
\* a frame is kept when frame_count % frame_interval == 0
RECURSIVE read_loop(_, _, _)
read_loop(frame_count, total_frames, frame_interval) ==
    IF frame_count >= total_frames THEN <<>>
    ELSE (IF frame_count % frame_interval = 0 THEN <<frame_count>> ELSE <<>>)
         \o read_loop(frame_count + 1, total_frames, frame_interval)

\* what ends the call before it returns: total_frames // frame_interval
\* with frame_interval = 0
extract_frames_exception(opened, original_fps, target_fps) ==
    IF opened /\ frame_interval_of(original_fps, target_fps) = 0
    THEN "ZeroDivisionError" ELSE None

\* the list extract_frames builds; every path is appended whether or not
\* cv2.imwrite wrote the file, and no frame is read when the call raises
extracted_frames(video_path, target_fps, outdir, opened, original_fps, total_frames) ==
    IF ~opened \/ frame_interval_of(original_fps, target_fps) = 0 THEN <<>>
    ELSE LET kept == read_loop(0, total_frames,
                               frame_interval_of(original_fps, target_fps))
         IN  [ i \in DOMAIN kept |->
                 frame_path(outdir, clean_filename(video_path.title), kept[i]) ]

\* FrameExtractor.extract_frames; opened, original_fps and total_frames are
\* what cv2 reports of the video, write_ok whether cv2.imwrite can write
extract_frames(video_path, target_fps, outdir, opened, original_fps, total_frames, write_ok) ==
    LET frames == extracted_frames(video_path, target_fps, outdir,
                                   opened, original_fps, total_frames)
        call == [video_path |-> video_path, target_fps |-> target_fps,
                 outdir |-> outdir]
        video == [opened |-> opened, original_fps |-> original_fps,
                  total_frames |-> total_frames]
    IN  IF extract_frames_exception(opened, original_fps, target_fps) # None
        THEN /\ last' = [op |-> "raised", arg |-> "extract_frames", pre |-> video,
                         ret |-> extract_frames_exception(opened, original_fps, target_fps),
                         wrote |-> FALSE, again |-> FALSE, call |-> call]
             /\ UNCHANGED <<disk, dirs>>
        ELSE /\ last' = [op |-> "extract_frames", arg |-> call, pre |-> video,
                         ret |-> frames, wrote |-> write_ok /\ frames # <<>>,
                         again |-> FALSE]
             /\ dirs' = IF opened /\ write_ok THEN dirs \cup {outdir} ELSE dirs
             /\ disk' = IF write_ok THEN disk \cup Range(frames) ELSE disk

\* ---- the frame extractor called on its own ------------------------------
OutputDirs == {"dataset", "frames"}

extract_frames_call ==
    \E title \in {<<"a", "b">>, <<"b", " ", "c", "!">>}, outdir \in OutputDirs,
       opened, write_ok \in BOOLEAN,
       original_fps, target_fps \in 1..MaxFps, total_frames \in 0..MaxFrames :
        /\ extract_frames(video_file(title, "mp4"), target_fps, outdir,
                          opened, original_fps, total_frames, write_ok)
        /\ UNCHANGED <<metaFile, writers, accepted, overlap, unreadable, run>>

InitFrames ==
    /\ metaFile = Absent
    /\ disk = {}
    /\ dirs = {}
    /\ unreadable = {}
    /\ last = NoCall
    /\ writers = IdleWriters
    /\ accepted = {}
    /\ overlap = FALSE
    /\ run = NoRun

\* the output directories are removed between two calls
remove_frames ==
    /\ Idle /\ disk # {}
    /\ disk' = {} /\ dirs' = {}
    /\ UNCHANGED <<metaFile, last, writers, accepted, overlap, unreadable, run>>

NextFrames ==
    \/ Idle /\ disk = {} /\ extract_frames_call
    \/ call_returns
    \/ remove_frames

SpecFrames == InitFrames /\ [][NextFrames]_vars

\* ---- C25 ---------------------------------------------------------------
\* the frame numbers of the paths a call returned, in the order returned
FrameNumbers(frames) == [ i \in DOMAIN frames |-> frames[i].frame ]

\* the call of extract_frames on an openable video that has just ended,
\* by a return or by an exception
ExtractEnded ==
    /\ \/ last.op = "extract_frames"
       \/ last.op = "raised" /\ last.arg = "extract_frames"
    /\ last.pre.opened

\* C25: for every positive target_fps and every openable video,
\* extract_frames returns, in increasing frame order, exactly the frames
\* whose zero-based index is a multiple of
\* frame_interval = floor(original_fps / target_fps), and frame_interval is
\* at least 1; it returns normally also when target_fps is greater than the
\* video's original fps.
C25_ExtractFramesSamplesEveryInterval ==
    ExtractEnded =>
        LET k == last.pre.original_fps \div last.arg.target_fps
            n == FrameNumbers(last.ret)
        IN  /\ last.op = "extract_frames"
            /\ k >= 1
            /\ \A i, j \in DOMAIN n : i < j => n[i] < n[j]
            /\ Range(n) = { f \in 0..(last.pre.total_frames - 1) : f % k = 0 }

\* C25, the calls that return: the frames returned are those whose index is
\* a multiple of the interval, in increasing order, and the call returns
\* exactly when target_fps is not greater than the original fps.
C25_SamplesEveryIntervalWhenNotFaster ==
    ExtractEnded =>
        IF last.op = "raised"
        THEN last.call.target_fps > last.pre.original_fps
        ELSE LET k == last.pre.original_fps \div last.arg.target_fps
                 n == FrameNumbers(last.ret)
             IN  /\ last.arg.target_fps <= last.pre.original_fps
                 /\ k >= 1
                 /\ \A i, j \in DOMAIN n : i < j => n[i] < n[j]
                 /\ Range(n) = { f \in 0..(last.pre.total_frames - 1) : f % k = 0 }

C25_Witness ==
    /\ last.op = "extract_frames" /\ last.pre.opened
    /\ last.pre.original_fps = 4 /\ last.arg.target_fps = 2
    /\ last.pre.total_frames = 5
    /\ FrameNumbers(last.ret) = <<0, 2, 4>>

\* ------------------------------------------------------------------------
\* src/web_scraper.py: _download_image and the loop of scrape_gallery
\* ------------------------------------------------------------------------
\* A file name is kept as its parts: f"{name}_{counter}{ext}" appends the
\* counter to the list of suffixes.  With the base names of one scrape,
\* "gallery_image_" and four digits, two names are the same string exactly
\* when their parts are equal.
ImageExts == {".jpg", ".png"}

BaseFilenames == <<"gallery_image_0000", "gallery_image_0001">>

image_file(base_filename, suffix, ext) ==
    [dir |-> "web_images", base |-> base_filename, suffix |-> suffix, ext |-> ext]

NoPath == [absent |-> TRUE]

\* the files of the output directory before the first scrape
OldImages ==
    { image_file(BaseFilenames[1], <<>>, ".jpg"),
      image_file(BaseFilenames[1], <<1>>, ".jpg"),
      image_file(BaseFilenames[1], <<>>, ".png"),
      image_file(BaseFilenames[2], <<>>, ".jpg") }

free_name_first(filepath, counter, files) == filepath

\* counter = 1; while os.path.exists(filepath): name, ext = splitext(filename);
\* filename = f"{name}_{counter}{ext}"; counter += 1
RECURSIVE free_name(_, _, _)
free_name(filepath, counter, files) ==
    IF filepath \in files
    THEN free_name([filepath EXCEPT !.suffix = Append(@, counter)], counter + 1, files)
    ELSE filepath

NoScrape == [mode |-> "gallery", pc |-> "idle", i |-> 0, img_elements |-> 0,
             downloaded_files |-> <<>>, rerun |-> FALSE]

\* scrape_gallery up to its loop: the page is fetched and img_elements
\* selected; a failed request or an empty selection returns []
scrape_gallery(fetched, img_elements) ==
    /\ \/ run.pc = "idle"
       \/ run.pc = "done" /\ ~run.rerun
    /\ Idle
    /\ IF fetched /\ img_elements > 0
       THEN /\ run' = [run EXCEPT !.pc = "downloading", !.i = 0,
                                  !.img_elements = img_elements,
                                  !.downloaded_files = <<>>,
                                  !.rerun = (run.pc = "done")]
            /\ UNCHANGED last
       ELSE /\ run' = [run EXCEPT !.pc = "done", !.downloaded_files = <<>>,
                                  !.rerun = (run.pc = "done")]
            /\ last' = [op |-> "scrape_gallery", arg |-> img_elements, pre |-> disk,
                        ret |-> <<>>, wrote |-> FALSE, again |-> FALSE]
    /\ UNCHANGED <<metaFile, disk, writers, accepted, overlap, dirs, unreadable>>

\* one pass of the loop: _download_image(img_url, f"gallery_image_{i:04d}").
\* responded: the request succeeded; ext: what the content type or the URL
\* gives; body_read: iter_content delivered the whole body
download_image(responded, ext, body_read) ==
    LET base_filename == BaseFilenames[run.i + 1]
        filepath == free_name(image_file(base_filename, <<>>, ext), 1, disk)
        returned == IF responded /\ body_read THEN filepath ELSE NoPath
    IN  /\ run.pc = "downloading" /\ run.i < run.img_elements
        /\ Idle
        /\ disk' = IF responded THEN disk \cup {filepath} ELSE disk
        /\ last' = [op |-> "_download_image", arg |-> base_filename, pre |-> disk,
                    ret |-> returned, wrote |-> responded, again |-> FALSE]
        /\ run' = [run EXCEPT
                     !.i = @ + 1,
                     !.downloaded_files = IF returned # NoPath
                                          THEN Append(@, returned) ELSE @]
        /\ UNCHANGED <<metaFile, writers, accepted, overlap, dirs, unreadable>>

\* the loop is over: return downloaded_files
scrape_gallery_returns ==
    /\ run.pc = "downloading" /\ run.i = run.img_elements
    /\ Idle
    /\ run' = [run EXCEPT !.pc = "done"]
    /\ last' = [op |-> "scrape_gallery", arg |-> run.img_elements, pre |-> disk,
                ret |-> run.downloaded_files, wrote |-> FALSE, again |-> FALSE]
    /\ UNCHANGED <<metaFile, disk, writers, accepted, overlap, dirs, unreadable>>

InitDownload ==
    /\ metaFile = Absent
    /\ disk \in SUBSET OldImages
    /\ dirs = {"web_images"}
    /\ unreadable = {}
    /\ last = NoCall
    /\ writers = IdleWriters
    /\ accepted = {}
    /\ overlap = FALSE
    /\ run = NoScrape

NextDownload ==
    \/ \E fetched \in BOOLEAN, img_elements \in 0..Len(BaseFilenames) :
           scrape_gallery(fetched, img_elements)
    \/ \E responded, body_read \in BOOLEAN, ext \in ImageExts :
           download_image(responded, ext, body_read)
    \/ scrape_gallery_returns
    \/ call_returns

SpecDownload == InitDownload /\ [][NextDownload]_vars

\* ---- C28 ---------------------------------------------------------------
\* C28: _download_image never overwrites an existing file: whenever it
\* returns a path, no file existed at that path in the output directory
\* before the call; its search for a free file name ends (after at most one
\* step per file of the directory); and the paths returned within one scrape
\* are pairwise distinct.
C28_DownloadNeverOverwrites ==
    /\ (last.op = "_download_image" /\ last.ret # NoPath) =>
          /\ last.ret \notin last.pre
          /\ last.ret \in disk
          /\ disk \ {last.ret} = last.pre
          /\ Len(last.ret.suffix) <= Cardinality(last.pre)
    /\ \A i, j \in DOMAIN run.downloaded_files :
          i # j => run.downloaded_files[i] # run.downloaded_files[j]

\* a download whose first two names were taken, in a scrape that has
\* returned two paths
C28_Witness ==
    /\ last.op = "_download_image" /\ last.ret # NoPath
    /\ last.ret.suffix = <<1, 2>>
    /\ Len(run.downloaded_files) = 2

\* ------------------------------------------------------------------------
\* src/scraper_modular.py main / run_youtube_mode with
\* src/youtube_processor.py: one YouTube-mode run, and a second one after it
\* ------------------------------------------------------------------------
VideoFps == 2       \* cap.get(cv2.CAP_PROP_FPS) of every video of the model
VideoFrames == 2    \* cap.get(cv2.CAP_PROP_FRAME_COUNT) of every video

\* what the title search of a query can give: nothing (the lookup failed or
\* found nothing) or a list of titles
SearchResults ==
    { <<>>, << <<"b">> >>, << <<"B">>, <<"c">> >>, << <<"c">> >> }

\* the videos of the download directory before the first run, and a file
\* of it that is no video
OldDownloads == { video_file(<<"a", "b">>, "mp4"), video_file(<<"b">>, "mp4") }

OtherDownload == video_file(<<"c">>, "txt")

\* str.lower()
lower(s) ==
    [ i \in DOMAIN s |->
        CASE s[i] = "A" -> "a" [] s[i] = "B" -> "b" [] s[i] = "C" -> "c"
          [] OTHER -> s[i] ]

\* Python's `sub in s` on strings
contains(sub, s) ==
    \E i \in 0..(Len(s) - Len(sub)) : SubSeq(s, i + 1, i + Len(sub)) = sub

is_download(f) == "ext" \in DOMAIN f
is_frame(f) == "frame" \in DOMAIN f

\* glob.glob(os.path.join(self.download_dir, "*.<ext>"))
glob_ext(ext) == { f \in disk : is_download(f) /\ f.ext = ext }

\* the orders in which a glob can list a set of files
Orderings(S) ==
    { s \in [1..Cardinality(S) -> S] : \A i, j \in DOMAIN s : i # j => s[i] # s[j] }

\* _get_existing_video_files: the *.mp4, then the *.webm, then the *.mkv
existing_video_files ==
    { a \o b \o c : a \in Orderings(glob_ext("mp4")),
                    b \in Orderings(glob_ext("webm")),
                    c \in Orderings(glob_ext("mkv")) }

\* the inner loop of check_for_duplicate_videos: the first existing file
\* whose path contains existing_title is appended
first_file_containing(existing_title, existing_files) ==
    LET hits == { i \in DOMAIN existing_files :
                    contains(existing_title, path_chars(existing_files[i])) }
    IN  IF hits = {} THEN <<>>
        ELSE << existing_files[CHOOSE i \in hits : \A j \in hits : i <= j] >>

\* the two outer loops, pair by pair in the order of the code
RECURSIVE duplicate_scan(_, _, _)
duplicate_scan(k, new_titles, existing_files) ==
    LET E == Len(existing_files)
        new_title == new_titles[((k - 1) \div E) + 1]
        existing_title == existing_files[((k - 1) % E) + 1].title
    IN  IF E = 0 \/ k > Len(new_titles) * E THEN <<>>
        ELSE (IF lower(new_title) = lower(existing_title)
              THEN << [duplicate |-> new_title,
                       files |-> first_file_containing(existing_title, existing_files)] >>
              ELSE <<>>)
             \o duplicate_scan(k + 1, new_titles, existing_files)

RECURSIVE Flatten(_)
Flatten(ss) == IF ss = <<>> THEN <<>> ELSE Head(ss) \o Flatten(Tail(ss))

\* YouTubeProcessor.check_for_duplicate_videos, given the titles the search
\* found and the files the glob listed
check_for_duplicate_videos(new_titles, existing_files) ==
    LET scan == duplicate_scan(1, new_titles, existing_files)
    IN  IF new_titles = <<>>
        THEN [has_duplicates |-> FALSE, existing_videos |-> <<>>, new_titles |-> <<>>]
        ELSE [has_duplicates |-> Len(scan) > 0,
              existing_videos |-> Flatten([ i \in DOMAIN scan |-> scan[i].files ]),
              new_titles |-> new_titles]

\* YouTubeProcessor.check_url_duplicate: the first existing file whose title
\* is the video's title, case-insensitively
check_url_duplicate(video_title, existing_files) ==
    LET hits == { i \in DOMAIN existing_files :
                    lower(video_title) = lower(existing_files[i].title) }
    IN  IF hits = {} THEN <<>>
        ELSE << existing_files[CHOOSE i \in hits : \A j \in hits : i <= j] >>

\* FrameExtractor.__init__: GameDatasetScraper builds FrameExtractor()
output_directories == {"dataset", "real_images"}

\* glob.glob(os.path.join(directory, f"{clean_name}_frame_*.jpg")) over the
\* files `files`
frames_of(files, directory, video_path) ==
    { f \in files : /\ is_frame(f)
                    /\ f.dir = directory
                    /\ f.name = clean_filename(video_path.title) }

\* FrameExtractor.is_video_processed
is_video_processed(video_path) ==
    \E directory \in output_directories : frames_of(disk, directory, video_path) # {}

\* FrameExtractor.get_unprocessed_videos
get_unprocessed_videos(video_list) ==
    SelectSeq(video_list, LAMBDA video : ~is_video_processed(video))

\* ---- the entry point and the run ----------------------------------------
QueryArgs == {None, "", "gameplay"}
UrlArgs == {None, "", "https://youtu.be/v"}
FpsArgs == {1}

YoutubeArgs ==
    [query : QueryArgs, youtube_url : UrlArgs, outdir : OutputDirs, fps : FpsArgs]

\* the two tests of main pass: not (neither) and not (both)
valid_args_any(query, youtube_url) == TRUE

valid_args(query, youtube_url) ==
    /\ ~(~Truthy(query) /\ ~Truthy(youtube_url))
    /\ ~(Truthy(query) /\ Truthy(youtube_url))

NoYoutubeRun ==
    [mode |-> "youtube", pc |-> "idle", rerun |-> FALSE,
     args |-> [query |-> None, youtube_url |-> None, outdir |-> "dataset", fps |-> 1],
     writable |-> TRUE,
     status |-> 0, disk_before |-> {}, meta_before |-> Absent,
     checked |-> FALSE, existing_files |-> <<>>, new_titles |-> <<>>,
     has_duplicates |-> FALSE, unprocessed |-> <<>>,
     downloaded |-> FALSE, videos_to_process |-> <<>>, todo |-> <<>>,
     extracted |-> <<>>, frames |-> <<>>, saved |-> FALSE]

\* main: GameDatasetScraper() is built, then the YouTube arguments are
\* tested; sys.exit(1) or run_youtube_mode(args)
\* writable: cv2.imwrite can write into args.outdir during this run
main_youtube(args, writable) ==
    /\ \/ run.pc = "idle"
       \/ run.pc \in {"done", "exited", "crashed"} /\ ~run.rerun
    /\ dirs' = dirs \cup Folders \cup {download_dir}
    /\ run' = [NoYoutubeRun EXCEPT
                 !.rerun = (run.pc # "idle"),
                 !.args = args,
                 !.writable = writable,
                 !.pc = IF valid_args(args.query, args.youtube_url)
                        THEN "checking" ELSE "exited",
                 !.status = IF valid_args(args.query, args.youtube_url) THEN 0 ELSE 1,
                 !.disk_before = disk,
                 !.meta_before = metaFile]
    /\ last' = [op |-> "main", arg |-> args, pre |-> <<>>, ret |-> None,
                wrote |-> FALSE, again |-> FALSE]
    /\ UNCHANGED <<metaFile, disk, writers, accepted, overlap, unreadable>>

\* run_youtube_mode, `if args.youtube_url:`; looked_up: extract_info gave
\* the video's title
check_url(looked_up, video_title, existing_files) ==
    LET found == IF looked_up THEN check_url_duplicate(video_title, existing_files)
                 ELSE <<>>
        videos_to_process == get_unprocessed_videos(found)
    IN  /\ run.pc = "checking" /\ Truthy(run.args.youtube_url)
        /\ run' = [run EXCEPT
                     !.checked = TRUE,
                     !.existing_files = existing_files,
                     !.new_titles = << video_title >>,
                     !.has_duplicates = (found # <<>>),
                     !.pc = IF found # <<>> THEN "extracting" ELSE "downloading",
                     !.videos_to_process = videos_to_process,
                     !.todo = videos_to_process]
        /\ last' = [op |-> "check_url_duplicate", arg |-> video_title,
                    pre |-> existing_files, ret |-> found, wrote |-> FALSE,
                    again |-> FALSE]
        /\ UNCHANGED <<metaFile, disk, writers, accepted, overlap, dirs, unreadable>>

\* run_youtube_mode, the `else:` of the query
check_query(new_titles, existing_files) ==
    LET r == check_for_duplicate_videos(new_titles, existing_files)
        unprocessed == IF r.has_duplicates
                       THEN get_unprocessed_videos(r.existing_videos)
                       ELSE get_unprocessed_videos(existing_files)
    IN  /\ run.pc = "checking" /\ ~Truthy(run.args.youtube_url)
        /\ run' = [run EXCEPT
                     !.checked = TRUE,
                     !.existing_files = existing_files,
                     !.new_titles = new_titles,
                     !.has_duplicates = r.has_duplicates,
                     !.unprocessed = unprocessed,
                     !.pc = IF r.has_duplicates THEN "extracting" ELSE "downloading",
                     !.videos_to_process = IF r.has_duplicates THEN unprocessed ELSE <<>>,
                     !.todo = IF r.has_duplicates THEN unprocessed ELSE <<>>]
        /\ last' = [op |-> "check_for_duplicate_videos", arg |-> new_titles,
                    pre |-> existing_files, ret |-> r, wrote |-> FALSE,
                    again |-> FALSE]
        /\ UNCHANGED <<metaFile, disk, writers, accepted, overlap, dirs, unreadable>>

\* download_videos_by_query / download_video_by_url: the files that are in
\* the download directory after the download and were not before, in the
\* order of a set; an exception of yt-dlp gives []
download_videos(ok, titles) ==
    LET new_files == IF ok
                     THEN { video_file(titles[i], "mp4") : i \in DOMAIN titles } \ disk
                     ELSE {}
    IN  /\ run.pc = "downloading"
        /\ run.new_titles # <<>> => titles = run.new_titles
        /\ disk' = disk \cup new_files
        /\ \E downloaded_files \in Orderings(new_files) :
             /\ run' = [run EXCEPT
                          !.downloaded = TRUE,
                          !.pc = "extracting",
                          !.videos_to_process = run.unprocessed \o downloaded_files,
                          !.todo = run.unprocessed \o downloaded_files]
             /\ last' = [op |-> "download", arg |-> titles, pre |-> <<>>,
                         ret |-> downloaded_files, wrote |-> new_files # {},
                         again |-> FALSE]
        /\ UNCHANGED <<metaFile, writers, accepted, overlap, dirs, unreadable>>

\* the loop over videos_to_process: extract_frames(video_file, args.fps,
\* args.outdir); cv2 opens the files that are videos
extract_next ==
    LET video == Head(run.todo)
        opened == video.ext \in {"mp4", "webm", "mkv"}
        write_ok == run.writable
        frames == extracted_frames(video, run.args.fps, run.args.outdir,
                                   opened, VideoFps, VideoFrames)
    IN  /\ run.pc = "extracting" /\ run.todo # <<>>
        /\ extract_frames(video, run.args.fps, run.args.outdir,
                          opened, VideoFps, VideoFrames, write_ok)
        /\ run' = [run EXCEPT
                     !.extracted = Append(@, video),
                     !.frames = frames,
                     !.pc = IF extract_frames_exception(opened, VideoFps, run.args.fps) # None
                            THEN "crashed"
                            ELSE IF frames # <<>> THEN "saving" ELSE "extracting",
                     !.status = IF extract_frames_exception(opened, VideoFps, run.args.fps) # None
                                THEN 1 ELSE @,
                     !.todo = IF frames # <<>> THEN @ ELSE Tail(@)]
        /\ UNCHANGED <<metaFile, writers, accepted, overlap, unreadable>>

\* the content of a frame file, by the video it is a frame of
frame_content(frame) == IF frame.name = <<"a", "b">> THEN "a" ELSE "b"

frame_entry(frame, video) ==
    [filename |-> frame, filepath |-> frame, source_type |-> "youtube_frame",
     file_hash |-> calculate_file_hash(frame, frame_content(frame)),
     source_info |-> [video_path |-> video, fps |-> run.args.fps,
                      extraction_method |-> "frame_interval"]]

\* `if frames:` create_metadata_entry for every frame, then save_metadata
save_frames ==
    LET video == Head(run.todo)
        metadata_entries == [ i \in DOMAIN run.frames |-> frame_entry(run.frames[i], video) ]
        existing_metadata == load_metadata(metaFile)
    IN  /\ run.pc = "saving"
        /\ IF \E i \in DOMAIN run.frames : run.frames[i] \notin disk
           THEN /\ run' = [run EXCEPT !.pc = "crashed", !.status = 1]
                /\ last' = [op |-> "raised", arg |-> "create_metadata_entry",
                            pre |-> <<>>, ret |-> "FileNotFoundError",
                            wrote |-> FALSE, again |-> FALSE]
                /\ UNCHANGED metaFile
           ELSE IF exception_of("save_metadata", metaFile) # None
           THEN /\ run' = [run EXCEPT !.pc = "crashed", !.status = 1]
                /\ last' = [op |-> "raised", arg |-> "save_metadata", pre |-> <<>>,
                            ret |-> exception_of("save_metadata", metaFile),
                            wrote |-> FALSE, again |-> FALSE]
                /\ UNCHANGED metaFile
           ELSE /\ run' = [run EXCEPT !.pc = "extracting", !.todo = Tail(@),
                                      !.frames = <<>>, !.saved = TRUE]
                /\ metaFile' = json_dump(merge_entries(existing_metadata, metadata_entries))
                /\ last' = [op |-> "save_metadata", arg |-> metadata_entries,
                            pre |-> existing_metadata, ret |-> None, wrote |-> TRUE,
                            again |-> FALSE]
        /\ UNCHANGED <<disk, writers, accepted, overlap, dirs, unreadable>>

\* no video is left: run_youtube_mode returns and main ends
run_youtube_returns ==
    /\ run.pc = "extracting" /\ run.todo = <<>>
    /\ run' = [run EXCEPT !.pc = "done"]
    /\ last' = NoCall
    /\ UNCHANGED <<metaFile, disk, writers, accepted, overlap, dirs, unreadable>>

InitYoutube ==
    /\ metaFile = Absent
    /\ \E videos \in SUBSET OldDownloads : disk = videos \cup {OtherDownload}
    /\ dirs = {}
    /\ unreadable = {}
    /\ last = NoCall
    /\ writers = IdleWriters
    /\ accepted = {}
    /\ overlap = FALSE
    /\ run = NoYoutubeRun

NextYoutube ==
    \/ \E args \in YoutubeArgs, writable \in BOOLEAN : main_youtube(args, writable)
    \/ \E looked_up \in BOOLEAN, video_title \in {<<"B">>, <<"c">>},
          existing_files \in existing_video_files :
           check_url(looked_up, video_title, existing_files)
    \/ \E new_titles \in SearchResults, existing_files \in existing_video_files :
           check_query(new_titles, existing_files)
    \/ \E ok \in BOOLEAN, titles \in SearchResults \cup {run.new_titles} :
           download_videos(ok, titles)
    \/ extract_next
    \/ save_frames
    \/ run_youtube_returns

SpecYoutube == InitYoutube /\ [][NextYoutube]_vars

\* ---- C30 ---------------------------------------------------------------
\* an option is given when its value is neither missing nor empty
Given(v) == v \notin {None, ""}

ExactlyOneGiven(args) == Given(args.query) # Given(args.youtube_url)

\* C30: in YouTube mode the entry point requires exactly one of --query and
\* --youtube-url: when neither or both are given the run exits with status 1
\* and no duplicate check, download, frame extraction or metadata write has
\* been made; a run exits that way only then.
C30_InvalidArgsExitBeforeWork ==
    run.pc # "idle" =>
        /\ ~ExactlyOneGiven(run.args) =>
              /\ run.pc = "exited" /\ run.status = 1
              /\ ~run.checked /\ ~run.downloaded
              /\ run.extracted = <<>> /\ ~run.saved
              /\ disk = run.disk_before /\ metaFile = run.meta_before
        /\ run.pc = "exited" => ~ExactlyOneGiven(run.args)

\* a second run, given both options after a first run that extracted and
\* recorded frames, has exited
C30_Witness ==
    /\ run.pc = "exited" /\ run.rerun
    /\ Given(run.args.query) /\ Given(run.args.youtube_url)
    /\ metaFile.state = "valid"
    /\ \E f \in disk : is_frame(f)

\* ---- C26 ---------------------------------------------------------------
SameTitle(a, b) == lower(a) = lower(b)

\* the video files of the download directory
VideosOnDisk == { f \in disk : is_download(f) /\ f.ext \in {"mp4", "webm", "mkv"} }

\* C26: every file path check_for_duplicate_videos returns as an existing
\* duplicate has a base name equal, case-insensitively, to one of the queried
\* titles; has_duplicates is true exactly when a queried title equals,
\* case-insensitively, the base name of an existing video file.
C26_DuplicatesAreQueriedTitles ==
    last.op = "check_for_duplicate_videos" =>
        /\ \A f \in Range(last.ret.existing_videos) :
              \E t \in Range(last.arg) : SameTitle(f.title, t)
        /\ last.ret.has_duplicates <=>
              \E t \in Range(last.arg), f \in VideosOnDisk : SameTitle(t, f.title)

\* C26, what the code does give: has_duplicates is exact, and every returned
\* file is an existing video whose path contains the title of a matched one.
C26_HasDuplicatesIffTitleMatches ==
    last.op = "check_for_duplicate_videos" =>
        /\ last.ret.has_duplicates <=>
              \E t \in Range(last.arg), f \in VideosOnDisk : SameTitle(t, f.title)
        /\ \A f \in Range(last.ret.existing_videos) :
              /\ f \in VideosOnDisk
              /\ \E t \in Range(last.arg), g \in VideosOnDisk :
                    SameTitle(t, g.title) /\ contains(g.title, path_chars(f))

C26_Witness ==
    /\ last.op = "check_for_duplicate_videos"
    /\ last.arg = << <<"B">>, <<"c">> >>
    /\ last.ret.has_duplicates
    /\ last.ret.existing_videos = << video_file(<<"b">>, "mp4") >>

\* ---- C27 ---------------------------------------------------------------
\* the query-mode run has made its duplicate check
QueryChecked == run.pc # "idle" /\ run.checked /\ ~Given(run.args.youtube_url)

Matched(video) == \E t \in Range(run.new_titles) : SameTitle(t, video.title)

SomeTitleMatches == \E f \in Range(run.existing_files) : Matched(f)

\* the videos the run has handed or will hand to extract_frames
Sent == Range(run.videos_to_process) \cup Range(run.extracted)

ProcessedBefore(video) ==
    \E directory \in output_directories :
        frames_of(run.disk_before, directory, video) # {}

\* C27: in query mode a download is issued only when no queried title
\* matches an existing video: when one matches, no download is made in that
\* run, and only matched existing videos that were not yet processed are
\* sent to frame extraction.
C27_DownloadOnlyWithoutMatch ==
    (QueryChecked /\ SomeTitleMatches) =>
        /\ ~run.downloaded
        /\ \A v \in Sent : /\ v \in Range(run.existing_files)
                           /\ Matched(v)
                           /\ ~ProcessedBefore(v)

\* C27, without the choice of the file: when a title matches no download is
\* made and every video sent is an existing one not yet processed; and a
\* download is made only when no title matched.
C27_NoDownloadWhenTitleMatches ==
    QueryChecked =>
        /\ SomeTitleMatches =>
              /\ ~run.downloaded
              /\ \A v \in Sent : v \in Range(run.existing_files) /\ ~ProcessedBefore(v)
        /\ run.downloaded => ~SomeTitleMatches
        /\ run.has_duplicates <=> SomeTitleMatches

C27_Witness ==
    /\ QueryChecked /\ run.pc = "done"
    /\ run.new_titles = << <<"B">>, <<"c">> >>
    /\ SomeTitleMatches /\ ~run.downloaded
    /\ run.extracted = << video_file(<<"b">>, "mp4") >>

\* ---- C24 ---------------------------------------------------------------
\* frames of the video were in some directory when the run started
HadFrames(video) ==
    \E f \in run.disk_before : is_frame(f) /\ f.name = clean_filename(video.title)

\* C24: once extract_frames has written a frame of a video into the output
\* directory the run was given, is_video_processed is true of the video,
\* and a later run that finds the video already downloaded does not extract
\* its frames again, whatever the output directory.
C24_ExtractedVideoIsProcessed ==
    /\ (last.op = "extract_frames" /\ last.wrote) =>
          is_video_processed(last.arg.video_path)
    /\ run.pc # "idle" =>
          \A v \in Range(run.extracted) : v \in run.disk_before => ~HadFrames(v)

\* C24 for the two default directories: frames written into dataset or
\* real_images are found, and a video that had frames there when the run
\* started is not extracted again.
C24_ProcessedDetectedInDefaultDirs ==
    /\ (last.op = "extract_frames" /\ last.wrote
          /\ last.arg.outdir \in output_directories) =>
          is_video_processed(last.arg.video_path)
    /\ run.pc # "idle" =>
          \A v \in Range(run.extracted) : ~ProcessedBefore(v)

C24_Witness ==
    /\ run.rerun /\ run.pc = "done" /\ run.args.outdir = "dataset"
    /\ run.checked /\ run.has_duplicates /\ run.extracted = <<>>
    /\ \E v \in Range(run.existing_files) : Matched(v) /\ ProcessedBefore(v)

=============================================================================
